---- MODULE Spec2Model ----
(***************************************************************************)
(* GlyphMoji bot (app.py): the two text codecs (emoji chart and \uXXXX     *)
(* escapes) and the per-chat mode store (modes dict + modes.json).         *)
(* Characters are Unicode code points (naturals); a Python str is a        *)
(* sequence of code points.                                                *)
(***************************************************************************)
EXTENDS Integers, Sequences, FiniteSets, TLC

VARIABLES mode, plain, src, enc, glyphs, i, out, dec1, dec2, pass, tpc,
          modes, file, pc, req, cur, buf, sent, log, boot

vars == <<mode, plain, src, enc, glyphs, i, out, dec1, dec2, pass, tpc,
          modes, file, pc, req, cur, buf, sent, log, boot>>

textvars == <<mode, plain, src, enc, glyphs, i, out, dec1, dec2, pass, tpc>>

storevars == <<modes, file, pc, req, cur, buf, sent, log, boot>>

(* ---------------- generic helpers ---------------- *)

Min(a, b) == IF a < b THEN a ELSE b

SetMax(S) == CHOOSE x \in S : \A y \in S : y <= x

RECURSIVE Concat(_)
Concat(ss) == IF ss = <<>> THEN <<>> ELSE Head(ss) \o Concat(Tail(ss))

(* Python slice s[a:a+L] with a 0-based and a <= len(s): truncated at the end *)
Slice(s, a, L) == SubSeq(s, a + 1, Min(a + L, Len(s)))

(* all sequences over A of length 0..n *)
StringsUpTo(A, n) == UNION {[1..k -> A] : k \in 0..n}

(* ---------------- Emoji mapping (chart) ---------------- *)

(* insertion order of the dict literal: "a".."z" then " " *)
CHART_ORDER == <<97, 98, 99, 100, 101, 102, 103, 104, 105, 106, 107, 108, 109, 110, 111, 112, 113, 114, 115, 116, 117, 118, 119, 120, 121, 122, 32>>

CHART_EMOJI ==
    (97 :> <<240, 376, 732, 8364>>) @@
    (98 :> <<240, 376, 8217>>) @@
    (99 :> <<240, 376, 338>>) @@
    (100 :> <<240, 376, 169>>) @@
    (101 :> <<240, 376, 165, 353>>) @@
    (102 :> <<240, 376, 376>>) @@
    (103 :> <<240, 376, 166>>) @@
    (104 :> <<240, 376, 161>>) @@
    (105 :> <<240, 376, 166>>) @@
    (106 :> <<240, 376, 8226, 185, 239, 184>>) @@
    (107 :> <<240, 376, 8221, 8216>>) @@
    (108 :> <<240, 376, 8249>>) @@
    (109 :> <<240, 376, 338>>) @@
    (110 :> <<240, 376, 381, 182>>) @@
    (111 :> <<240, 376, 352>>) @@
    (112 :> <<240, 376, 165, 382>>) @@
    (113 :> <<226, 8220>>) @@
    (114 :> <<240, 376, 338, 710>>) @@
    (115 :> <<226, 173>>) @@
    (116 :> <<240, 376, 338, 180>>) @@
    (117 :> <<226, 732, 8218, 239, 184>>) @@
    (118 :> <<240, 376, 338, 8249>>) @@
    (119 :> <<240, 376, 338, 352>>) @@
    (120 :> <<226, 338>>) @@
    (121 :> <<240, 376, 184>>) @@
    (122 :> <<226, 353, 161>>) @@
    (32 :> <<226, 172, 339>>)

(* {v: k for k, v in CHART_EMOJI.items()}: a later item overwrites an earlier one *)
REV_KEYS == {CHART_EMOJI[k] : k \in DOMAIN CHART_EMOJI}

REV_EMOJI == [tok \in REV_KEYS |->
    CHART_ORDER[SetMax({n \in 1..Len(CHART_ORDER) : CHART_EMOJI[CHART_ORDER[n]] = tok})]]

(* str.lower() of one character, as a string; on the characters the model  *)
(* draws: A-Z fold to a-z, KELVIN SIGN U+212A folds to "k", U+0130 folds   *)
(* to the two characters "i" + U+0307, everything else is unchanged        *)
lower(ch) == IF ch >= 65 /\ ch <= 90 THEN <<ch + 32>>
             ELSE IF ch = 8490 THEN <<107>>
             ELSE IF ch = 304 THEN <<105, 775>>
             ELSE <<ch>>

None == <<>>

(* CHART_EMOJI.get(key) for a string key: None when absent *)
ChartGet(key) == IF Len(key) = 1 /\ key[1] \in DOMAIN CHART_EMOJI
                 THEN CHART_EMOJI[key[1]] ELSE None

(* mutant: an unmapped character is dropped instead of passed through *)
EncodeChar_DropUnmapped(ch) ==
    LET first == ChartGet(<<ch>>)
    IN  IF first # None THEN first ELSE ChartGet(lower(ch))

(* CHART_EMOJI.get(ch) or CHART_EMOJI.get(ch.lower()); ch if that is None *)
EncodeChar(ch) ==
    LET first  == ChartGet(<<ch>>)
        mapped == IF first # None THEN first ELSE ChartGet(lower(ch))
    IN  IF mapped # None THEN mapped ELSE <<ch>>

RECURSIVE encode_emoji_text(_)
encode_emoji_text(text) ==
    IF text = <<>> THEN <<>>
    ELSE EncodeChar(Head(text)) \o encode_emoji_text(Tail(text))

(* max_len = len(keys[0]) if keys else 1, keys sorted by length descending *)
max_len == IF REV_KEYS = {} THEN 1 ELSE SetMax({Len(k) : k \in REV_KEYS})

(* for L in range(max_len, 0, -1): first L whose slice is a key, 0 if none *)
RECURSIVE MatchL(_, _, _)
MatchL(g, a, L) ==
    IF L = 0 THEN 0
    ELSE IF Slice(g, a, L) \in REV_KEYS THEN L
    ELSE MatchL(g, a, L - 1)

(* mutant: candidate lengths are tried from 1 upwards, so the shortest key wins *)
LoopBody_ShortestFirst(g, a, o) ==
    LET Ls == {l \in 1..max_len : Slice(g, a, l) \in REV_KEYS}
        L  == IF Ls = {} THEN 0 ELSE CHOOSE l \in Ls : \A l2 \in Ls : l <= l2
    IN  IF L > 0 THEN [i |-> a + L, out |-> Append(o, REV_EMOJI[Slice(g, a, L)])]
        ELSE [i |-> a + 1, out |-> Append(o, g[a + 1])]

(* one iteration of the while loop of decode_emoji_text *)
LoopBody(g, a, o) ==
    LET L == MatchL(g, a, max_len)
    IN  IF L > 0 THEN [i |-> a + L, out |-> Append(o, REV_EMOJI[Slice(g, a, L)])]
        ELSE [i |-> a + 1, out |-> Append(o, g[a + 1])]


(* ---------------- \uXXXX escapes ---------------- *)

BACKSLASH == 92

LETTER_U == 117

SPACE == 32

UNDERSCORE == 95

(* chr() accepts 0 .. 0x10FFFF *)
MAX_CODEPOINT == 1114111

HexDigit(d) == IF d < 10 THEN 48 + d ELSE 87 + d

RECURSIVE HexStr(_)
HexStr(n) == IF n < 16 THEN <<HexDigit(n)>>
             ELSE HexStr(n \div 16) \o <<HexDigit(n % 16)>>

RECURSIVE ZeroPad(_, _)
ZeroPad(s, w) == IF Len(s) >= w THEN s ELSE ZeroPad(<<48>> \o s, w)

(* f"\\u{ord(ch):04x}" *)
EscapeOf(ch) == <<BACKSLASH, LETTER_U>> \o ZeroPad(HexStr(ch), 4)

(* sep.join(parts) *)
RECURSIVE Join(_, _)
Join(sep, parts) ==
    IF parts = <<>> THEN <<>>
    ELSE IF Len(parts) = 1 THEN parts[1]
    ELSE parts[1] \o sep \o Join(sep, Tail(parts))

(* mutant: the escapes are joined without the separating space *)
unicode_encode_NoSeparator(text) == Join(<<>>, [k \in 1..Len(text) |-> EscapeOf(text[k])])

unicode_encode(text) == Join(<<SPACE>>, [k \in 1..Len(text) |-> EscapeOf(text[k])])

(* str.isspace() for one character: what str.split() with no argument splits on *)
IsSpace(c) == \/ c \in 9..13
              \/ c \in 28..32
              \/ c \in {133, 160, 5760, 8232, 8233, 8239, 8287, 12288}
              \/ c \in 8192..8202

(* text.split(): maximal runs of non-whitespace characters, in order *)
RECURSIVE SplitFrom(_, _, _)
SplitFrom(text, k, piece) ==
    IF k > Len(text) THEN (IF piece = <<>> THEN <<>> ELSE <<piece>>)
    ELSE IF IsSpace(text[k])
         THEN (IF piece = <<>> THEN <<>> ELSE <<piece>>) \o SplitFrom(text, k + 1, <<>>)
         ELSE SplitFrom(text, k + 1, Append(piece, text[k]))

Split(text) == SplitFrom(text, 1, <<>>)

IsHex(c) == c \in 48..57 \/ c \in 97..102 \/ c \in 65..70

HexVal(c) == IF c \in 48..57 THEN c - 48 ELSE IF c \in 97..102 THEN c - 87 ELSE c - 55

RECURSIVE DigitsValue(_, _)
DigitsValue(s, acc) ==
    IF s = <<>> THEN acc
    ELSE IF Head(s) = UNDERSCORE THEN DigitsValue(Tail(s), acc)
    ELSE DigitsValue(Tail(s), acc * 16 + HexVal(Head(s)))

(* int(s, 16): optional sign, optional 0x/0X prefix (one underscore may      *)
(* follow it), then hex digits with single underscores between digits;       *)
(* ok = FALSE stands for ValueError                                          *)
ParseInt16(s) ==
    LET signed   == s # <<>> /\ s[1] \in {43, 45}
        negative == s # <<>> /\ s[1] = 45
        s1       == IF signed THEN Tail(s) ELSE s
        prefixed == Len(s1) >= 2 /\ s1[1] = 48 /\ s1[2] \in {120, 88}
        s2       == IF prefixed THEN SubSeq(s1, 3, Len(s1)) ELSE s1
        s3       == IF prefixed /\ s2 # <<>> /\ s2[1] = UNDERSCORE THEN Tail(s2) ELSE s2
        wellformed == /\ s3 # <<>>
                      /\ s3[1] # UNDERSCORE
                      /\ s3[Len(s3)] # UNDERSCORE
                      /\ \A k \in 1..Len(s3) : IsHex(s3[k]) \/ s3[k] = UNDERSCORE
                      /\ \A k \in 1..(Len(s3) - 1) :
                            ~(s3[k] = UNDERSCORE /\ s3[k + 1] = UNDERSCORE)
    IN  IF wellformed
        THEN [ok |-> TRUE,
              val |-> IF negative THEN 0 - DigitsValue(s3, 0) ELSE DigitsValue(s3, 0)]
        ELSE [ok |-> FALSE, val |-> 0]

StartsWithMarker(p) == Len(p) >= 2 /\ p[1] = BACKSLASH /\ p[2] = LETTER_U

(* mutant: a marker-prefixed piece that does not parse loses its marker *)
DecodePiece_DropMarker(p) ==
    IF StartsWithMarker(p)
    THEN LET r == ParseInt16(SubSeq(p, 3, Len(p)))
         IN  IF r.ok /\ r.val >= 0 /\ r.val <= MAX_CODEPOINT THEN <<r.val>>
             ELSE SubSeq(p, 3, Len(p))
    ELSE p

(* try: chr(int(p[2:], 16)) except Exception: p *)
DecodePiece(p) ==
    IF StartsWithMarker(p)
    THEN LET r == ParseInt16(SubSeq(p, 3, Len(p)))
         IN  IF r.ok /\ r.val >= 0 /\ r.val <= MAX_CODEPOINT THEN <<r.val>> ELSE p
    ELSE p

unicode_decode(text) ==
    LET parts == Split(text)
    IN  Concat([k \in 1..Len(parts) |-> DecodePiece(parts[k])])

(* ---------------- bounds and input alphabets ---------------- *)

MaxPlainLen == 2

MaxGlyphLen == 4

MaxEscLen == 2

MaxRawLen == 5

(* a-z, the capitals A C K Z, space, "!", KELVIN SIGN, U+0130 *)
EmojiPlainAlphabet == (97..122) \cup {65, 67, 75, 90, 32, 33, 8490, 304}

(* characters of the tokens of c/m, r, g/i and f, and "!" *)
GlyphAlphabet == {240, 376, 338, 710, 166, 33}

EmojiInputs == StringsUpTo(EmojiPlainAlphabet, MaxPlainLen)
               \cup StringsUpTo(GlyphAlphabet, MaxGlyphLen)

(* NUL, "A", backslash, "u", "4", e-acute, U+FFFF, U+10000, U+1F600,       *)
(* U+10FFFF, and the whitespace characters space, tab, no-break space      *)
EscPlainAlphabet == {0, 65, 92, 117, 52, 233, 65535, 65536, 128512, 1114111, 32, 9, 160}

(* backslash, "u", "4", "_", "-", space *)
RawEscAlphabet == {92, 117, 52, 95, 45, 32}

UnicodeInputs == StringsUpTo(EscPlainAlphabet, MaxEscLen)
                 \cup StringsUpTo(RawEscAlphabet, MaxRawLen)

(* ---------------- the codecs as processes ---------------- *)

(* inputs of the identity mode: "a", "!" *)
OtherInputs == StringsUpTo({97, 33}, 2)

InputsFor(m) == IF m = "emoji" THEN EmojiInputs
                ELSE IF m = "unicode" THEN UnicodeInputs
                ELSE OtherInputs

TextIdle == /\ mode = "emoji" /\ plain = <<>> /\ src = "none" /\ enc = <<>>
            /\ glyphs = <<>> /\ i = 0 /\ out = <<>> /\ dec1 = <<>> /\ dec2 = <<>>
            /\ pass = 0 /\ tpc = "start"

encode_text_with_mode(text, m) ==
    IF m = "emoji" THEN encode_emoji_text(text)
    ELSE IF m = "unicode" THEN unicode_encode(text)
    ELSE text

(* res = encode_text_with_mode(plain, mode) *)
Encode ==
    /\ tpc = "start"
    /\ enc' = encode_text_with_mode(plain, mode)
    /\ tpc' = "encoded"
    /\ UNCHANGED <<mode, plain, src, glyphs, i, out, dec1, dec2, pass>>

(* decode_text_with_mode(enc, mode) is called: out = [], i = 0 *)
DecodeEncoded ==
    /\ tpc = "encoded"
    /\ glyphs' = enc /\ src' = "enc"
    /\ i' = 0 /\ out' = <<>> /\ pass' = 1
    /\ tpc' = "decoding"
    /\ UNCHANGED <<mode, plain, enc, dec1, dec2>>

(* decode_text_with_mode(plain, mode) is called on the raw input *)
DecodeRaw ==
    /\ tpc = "start"
    /\ glyphs' = plain /\ src' = "raw"
    /\ i' = 0 /\ out' = <<>> /\ pass' = 1
    /\ tpc' = "decoding"
    /\ UNCHANGED <<mode, plain, enc, dec1, dec2>>

(* decode_text_with_mode(dec1, mode): decoding the decoder's own output *)
DecodeAgain ==
    /\ tpc = "decoded"
    /\ glyphs' = dec1
    /\ i' = 0 /\ out' = <<>> /\ pass' = 2
    /\ tpc' = "decoding"
    /\ UNCHANGED <<mode, plain, src, enc, dec1, dec2>>

(* the decoder returns res *)
Return(res) ==
    /\ IF pass = 1 THEN dec1' = res /\ dec2' = dec2 /\ tpc' = "decoded"
                   ELSE dec2' = res /\ dec1' = dec1 /\ tpc' = "decoded2"
    /\ UNCHANGED <<mode, plain, src, enc, glyphs, pass>>

(* decode_emoji_text: one iteration of while i < len(glyphs) *)
EmojiDecodeIter ==
    /\ tpc = "decoding" /\ mode = "emoji"
    /\ i < Len(glyphs)
    /\ LET n == LoopBody(glyphs, i, out)
       IN  i' = n.i /\ out' = n.out
    /\ UNCHANGED <<mode, plain, src, enc, glyphs, dec1, dec2, pass, tpc>>

(* decode_emoji_text: loop exit, return "".join(out) *)
EmojiDecodeReturn ==
    /\ tpc = "decoding" /\ mode = "emoji"
    /\ ~(i < Len(glyphs))
    /\ Return(out)
    /\ UNCHANGED <<i, out>>

(* decode_text_with_mode, mode == "unicode" *)
UnicodeDecodeReturn ==
    /\ tpc = "decoding" /\ mode = "unicode"
    /\ Return(unicode_decode(glyphs))
    /\ UNCHANGED <<i, out>>

(* decode_text_with_mode, any other mode: return text *)
IdentityDecodeReturn ==
    /\ tpc = "decoding" /\ mode \notin {"emoji", "unicode"}
    /\ Return(glyphs)
    /\ UNCHANGED <<i, out>>

(* ---------------- modes persistence ---------------- *)

MaxCmds == 2

Chats == {1, 2}

(* the handlers run on the bot's worker threads *)
Threads == {1, 2}

NoArg == "<none>"

(* parts[1] of the /changemod message, when present *)
Args == {"emoji", "Unicode", "bogus"}

(* values a loaded modes.json may hold for a chat *)
StoredValues == {"emoji", "unicode", "legacy"}

Digit(d) == CASE d = 0 -> "0" [] d = 1 -> "1" [] d = 2 -> "2" [] d = 3 -> "3"
              [] d = 4 -> "4" [] d = 5 -> "5" [] d = 6 -> "6" [] d = 7 -> "7"
              [] d = 8 -> "8" [] d = 9 -> "9"

RECURSIVE StrNat(_)
StrNat(n) == IF n < 10 THEN Digit(n) ELSE StrNat(n \div 10) \o Digit(n % 10)

(* str(chat_id) *)
Str(n) == IF n < 0 THEN "-" \o StrNat(0 - n) ELSE StrNat(n)

(* parts[1].lower() on the arguments the model draws *)
LowerArg(a) == IF a = "Unicode" THEN "unicode" ELSE a

EmptyDict == [k \in {} |-> "emoji"]

DictGet(m, k, default) == IF k \in DOMAIN m THEN m[k] ELSE default

DictSet(m, k, v) == [x \in (DOMAIN m) \cup {k} |-> IF x = k THEN v ELSE m[x]]

RECURSIVE SumOver(_, _)
SumOver(S, f) == IF S = {} THEN 0
                 ELSE LET x == CHOOSE y \in S : TRUE
                      IN  f[x] + SumOver(S \ {x}, f)

(* length of json.dumps(m, ensure_ascii=False, indent=2) for a str -> str dict: *)
(* "{}" or "{\n" + ",\n".join('  "k": "v"') + "\n}"                            *)
DumpLen(m) ==
    IF DOMAIN m = {} THEN 2
    ELSE 2 + SumOver(DOMAIN m, [k \in DOMAIN m |-> 2 + (Len(k) + 2) + 2 + (Len(m[k]) + 2)])
           + (Cardinality(DOMAIN m) - 1) * 2 + 2

MissingFile == [kind |-> "missing", data |-> EmptyDict, len |-> 0]

TruncatedFile == [kind |-> "empty", data |-> EmptyDict, len |-> 0]

JsonFile(m) == [kind |-> "json", data |-> m, len |-> DumpLen(m)]

CorruptFile(n) == [kind |-> "corrupt", data |-> EmptyDict, len |-> n]

(* json.load of the file; {} on any exception (missing, empty or malformed) *)
load_modes(f) == IF f.kind = "json" THEN f.data ELSE EmptyDict

ModeOf(m, chat_id) == DictGet(m, Str(chat_id), "emoji")

get_mode_for_chat(chat_id) == ModeOf(modes, chat_id)

(* flushing a handle's buffer at offset 0: bytes another handle flushed      *)
(* beyond the end of this buffer stay in the file and break the JSON         *)
FlushOver(f, m) == IF f.len > DumpLen(m) THEN CorruptFile(f.len) ELSE JsonFile(m)

StoredDicts == UNION {[D -> StoredValues] : D \in SUBSET {Str(c) : c \in Chats}}

NoRequest == [chat |-> 0, arg |-> NoArg, new |-> ""]

NoMessage == [chat |-> 0, text |-> "", mode |-> ""]

AllIdle == \A t \in Threads : pc[t] = "idle"

StoreIdle == /\ modes = EmptyDict /\ file = MissingFile /\ boot = MissingFile
             /\ pc = [t \in Threads |-> "idle"]
             /\ req = [t \in Threads |-> NoRequest]
             /\ cur = [t \in Threads |-> ""]
             /\ buf = [t \in Threads |-> EmptyDict]
             /\ sent = [t \in Threads |-> NoMessage]
             /\ log = <<>>

(* webhook: an update with a /changemod message is handed to a worker *)
Receive(t) ==
    /\ pc[t] = "idle"
    /\ Len(log) + Cardinality({u \in Threads : pc[u] # "idle"}) < MaxCmds
    /\ \E c \in Chats, a \in Args \cup {NoArg} :
          req' = [req EXCEPT ![t] = [chat |-> c, arg |-> a, new |-> ""]]
    /\ pc' = [pc EXCEPT ![t] = "read"]
    /\ UNCHANGED <<modes, file, cur, buf, sent, log, boot>>

(* current = get_mode_for_chat(chat_id) *)
ReadCurrent(t) ==
    /\ pc[t] = "read"
    /\ cur' = [cur EXCEPT ![t] = get_mode_for_chat(req[t].chat)]
    /\ pc' = [pc EXCEPT ![t] = "decide"]
    /\ UNCHANGED <<modes, file, req, buf, sent, log, boot>>

(* mutant: the rejection does not return, the argument is stored anyway *)
Reject_FallsThrough(t) ==
    /\ pc[t] = "decide"
    /\ req[t].arg # NoArg
    /\ LowerArg(req[t].arg) \notin {"emoji", "unicode"}
    /\ modes' = DictSet(modes, Str(req[t].chat), LowerArg(req[t].arg))
    /\ sent' = [sent EXCEPT ![t] = [chat |-> req[t].chat, text |-> "Invalid mode", mode |-> ""]]
    /\ log' = Append(log, [t |-> t, chat |-> req[t].chat, arg |-> req[t].arg,
                           cur |-> cur[t], new |-> "", changed |-> FALSE])
    /\ pc' = [pc EXCEPT ![t] = "idle"]
    /\ UNCHANGED <<file, req, cur, buf, boot>>

(* if len(parts) > 1 and arg not in ("emoji", "unicode"): reject and return *)
Reject(t) ==
    /\ pc[t] = "decide"
    /\ req[t].arg # NoArg
    /\ LowerArg(req[t].arg) \notin {"emoji", "unicode"}
    /\ sent' = [sent EXCEPT ![t] = [chat |-> req[t].chat, text |-> "Invalid mode", mode |-> ""]]
    /\ log' = Append(log, [t |-> t, chat |-> req[t].chat, arg |-> req[t].arg,
                           cur |-> cur[t], new |-> "", changed |-> FALSE])
    /\ pc' = [pc EXCEPT ![t] = "idle"]
    /\ UNCHANGED <<modes, file, req, cur, buf, boot>>

(* mutant: the toggle yields "unicode" on both branches *)
NewMode_NeverEmoji(arg, current) ==
    IF arg # NoArg THEN LowerArg(arg)
    ELSE IF current = "emoji" THEN "unicode" ELSE "unicode"

(* the mode handle_changemod passes to set_mode_for_chat *)
NewMode(arg, current) ==
    IF arg # NoArg THEN LowerArg(arg)
    ELSE IF current = "emoji" THEN "unicode" ELSE "emoji"

(* set_mode_for_chat: modes[str(chat_id)] = mode *)
SetMode(t) ==
    /\ pc[t] = "decide"
    /\ req[t].arg = NoArg \/ LowerArg(req[t].arg) \in {"emoji", "unicode"}
    /\ LET new == NewMode(req[t].arg, cur[t])
       IN  /\ modes' = DictSet(modes, Str(req[t].chat), new)
           /\ req' = [req EXCEPT ![t].new = new]
    /\ pc' = [pc EXCEPT ![t] = "open"]
    /\ UNCHANGED <<file, cur, buf, sent, log, boot>>

(* save_modes: open(MODES_FILE, "w") truncates the file *)
SaveOpen(t) ==
    /\ pc[t] = "open"
    /\ file' = TruncatedFile
    /\ pc' = [pc EXCEPT ![t] = "dump"]
    /\ UNCHANGED <<modes, req, cur, buf, sent, log, boot>>

(* save_modes: json.dump(m, f) serialises the shared dict into the handle's buffer *)
SaveDump(t) ==
    /\ pc[t] = "dump"
    /\ buf' = [buf EXCEPT ![t] = modes]
    /\ pc' = [pc EXCEPT ![t] = "close"]
    /\ UNCHANGED <<modes, file, req, cur, sent, log, boot>>

(* save_modes: leaving the with block flushes the buffer and closes the file *)
SaveClose(t) ==
    /\ pc[t] = "close"
    /\ file' = FlushOver(file, buf[t])
    /\ pc' = [pc EXCEPT ![t] = "reply"]
    /\ UNCHANGED <<modes, req, cur, buf, sent, log, boot>>

(* bot.send_message(chat_id, "Mode set to ..." / "Toggled mode: ...") *)
Reply(t) ==
    /\ pc[t] = "reply"
    /\ sent' = [sent EXCEPT ![t] =
                  [chat |-> req[t].chat,
                   text |-> IF req[t].arg # NoArg THEN "Mode set to" ELSE "Toggled mode",
                   mode |-> req[t].new]]
    /\ log' = Append(log, [t |-> t, chat |-> req[t].chat, arg |-> req[t].arg,
                           cur |-> cur[t], new |-> req[t].new, changed |-> TRUE])
    /\ pc' = [pc EXCEPT ![t] = "idle"]
    /\ UNCHANGED <<modes, file, req, cur, buf, boot>>

(* process restart with no handler running: modes = load_modes() *)
Restart ==
    /\ AllIdle
    /\ log # <<>>
    /\ modes' = load_modes(file)
    /\ boot' = file
    /\ log' = <<>>
    /\ req' = [t \in Threads |-> NoRequest]
    /\ cur' = [t \in Threads |-> ""]
    /\ buf' = [t \in Threads |-> EmptyDict]
    /\ sent' = [t \in Threads |-> NoMessage]
    /\ UNCHANGED <<file, pc>>

(* ---------------- specifications ---------------- *)

InitCodec ==
    /\ mode \in {"emoji", "unicode", "legacy"}
    /\ plain \in InputsFor(mode)
    /\ src = "none" /\ enc = <<>> /\ glyphs = <<>> /\ i = 0 /\ out = <<>>
    /\ dec1 = <<>> /\ dec2 = <<>> /\ pass = 0 /\ tpc = "start"
    /\ StoreIdle

NextCodec ==
    \/ Encode /\ UNCHANGED storevars
    \/ DecodeEncoded /\ UNCHANGED storevars
    \/ DecodeRaw /\ UNCHANGED storevars
    \/ DecodeAgain /\ UNCHANGED storevars
    \/ EmojiDecodeIter /\ UNCHANGED storevars
    \/ EmojiDecodeReturn /\ UNCHANGED storevars
    \/ UnicodeDecodeReturn /\ UNCHANGED storevars
    \/ IdentityDecodeReturn /\ UNCHANGED storevars

SpecCodec == InitCodec /\ [][NextCodec]_vars

(* modes = load_modes() over whatever modes.json holds at process start *)
InitStore ==
    /\ TextIdle
    /\ file \in {MissingFile} \cup {JsonFile(m) : m \in StoredDicts}
    /\ modes = load_modes(file)
    /\ boot = file
    /\ pc = [t \in Threads |-> "idle"]
    /\ req = [t \in Threads |-> NoRequest]
    /\ cur = [t \in Threads |-> ""]
    /\ buf = [t \in Threads |-> EmptyDict]
    /\ sent = [t \in Threads |-> NoMessage]
    /\ log = <<>>

NextStore ==
    \/ \E t \in Threads : Receive(t) /\ UNCHANGED textvars
    \/ \E t \in Threads : ReadCurrent(t) /\ UNCHANGED textvars
    \/ \E t \in Threads : Reject(t) /\ UNCHANGED textvars
    \/ \E t \in Threads : SetMode(t) /\ UNCHANGED textvars
    \/ \E t \in Threads : SaveOpen(t) /\ UNCHANGED textvars
    \/ \E t \in Threads : SaveDump(t) /\ UNCHANGED textvars
    \/ \E t \in Threads : SaveClose(t) /\ UNCHANGED textvars
    \/ \E t \in Threads : Reply(t) /\ UNCHANGED textvars
    \/ Restart /\ UNCHANGED textvars

SpecStore == InitStore /\ [][NextStore]_vars

Spec == SpecStore


(* ---------------- properties ---------------- *)

IsLetterOrSpace(c) == c \in 97..122 \/ c \in 65..90 \/ c = SPACE

LowerAscii(s) == [k \in 1..Len(s) |-> IF s[k] \in 65..90 THEN s[k] + 32 ELSE s[k]]

(* the string the first decode was applied to *)
FirstInput == IF src = "raw" THEN plain ELSE enc

Decoded == tpc \in {"decoded", "decoded2"}

(* some substring of s is a key of REV_EMOJI *)
HasKey(s) == \E a \in 1..Len(s) : \E b \in a..Len(s) : SubSeq(s, a, b) \in REV_KEYS

(* p is a marker-prefixed token that parses as a hexadecimal code point *)
ValidEscape(p) ==
    /\ StartsWithMarker(p)
    /\ LET r == ParseInt16(SubSeq(p, 3, Len(p)))
       IN  r.ok /\ r.val >= 0 /\ r.val <= MAX_CODEPOINT

HasEscape(s) == \E k \in 1..Len(Split(s)) : ValidEscape(Split(s)[k])

(* C1: Symbol round trip: for every string of letters a-z, A-Z and spaces,   *)
(* decoding the encoding gives the string with its letters lowercased.        *)
C1_SymbolRoundTrip ==
    (mode = "emoji" /\ Decoded /\ src = "enc"
       /\ \A k \in 1..Len(plain) : IsLetterOrSpace(plain[k]))
    => dec1 = LowerAscii(plain)

(* C2: Escape round trip: for every string without whitespace characters,    *)
(* of any code points, decoding the encoding gives the string back; the       *)
(* empty string encodes to the empty string.                                  *)
C2_EscapeRoundTrip ==
    /\ (mode = "unicode" /\ Decoded /\ src = "enc"
          /\ \A k \in 1..Len(plain) : ~IsSpace(plain[k]))
       => dec1 = plain
    /\ (mode = "unicode" /\ tpc = "encoded" /\ plain = <<>>) => enc = <<>>

C2_Witness ==
    /\ mode = "unicode" /\ tpc = "decoded" /\ src = "enc"
    /\ plain = <<128512, 92>>
    /\ enc = <<92, 117, 49, 102, 54, 48, 48, 32, 92, 117, 48, 48, 53, 99>>
    /\ dec1 = plain

(* C3: the chart is a bijection over its 27 characters: no two characters    *)
(* share a token, no token is empty, the reverse index has 27 entries and     *)
(* maps every character's token back to the character.                        *)
C3_ChartBijection ==
    (mode = "emoji" /\ tpc = "start") =>
    /\ Cardinality(DOMAIN CHART_EMOJI) = 27
    /\ \A c, d \in DOMAIN CHART_EMOJI : CHART_EMOJI[c] = CHART_EMOJI[d] => c = d
    /\ \A c \in DOMAIN CHART_EMOJI : CHART_EMOJI[c] # <<>>
    /\ Cardinality(DOMAIN REV_EMOJI) = 27
    /\ \A c \in DOMAIN CHART_EMOJI : REV_EMOJI[CHART_EMOJI[c]] = c

(* every command completed or running so far had an unrecognised argument *)
OnlyRejections ==
    /\ \A k \in 1..Len(log) : ~log[k].changed
    /\ \A t \in Threads : pc[t] # "idle" =>
          (req[t].arg # NoArg /\ LowerArg(req[t].arg) \notin {"emoji", "unicode"})

(* C4: a /changemod whose argument is neither "emoji" nor "unicode" sends    *)
(* the rejection and mutates nothing: while only such commands have been      *)
(* handled, the modes dict and the file are as at process start and every     *)
(* chat's mode is what it was.                                                *)
C4_RejectMutatesNothing ==
    /\ [](OnlyRejections =>
            /\ modes = load_modes(boot)
            /\ file = boot
            /\ \A c \in Chats : get_mode_for_chat(c) = ModeOf(load_modes(boot), c)
            /\ \A k \in 1..Len(log) : sent[log[k].t].text = "Invalid mode")
    /\ [][\A t \in Threads :
            (/\ pc[t] # "idle" /\ pc'[t] # pc[t]
             /\ req[t].arg # NoArg /\ LowerArg(req[t].arg) \notin {"emoji", "unicode"})
            => /\ modes' = modes /\ file' = file
               /\ \A c \in Chats : ModeOf(modes', c) = ModeOf(modes, c)
               /\ pc'[t] = "idle" => sent'[t].text = "Invalid mode"]_vars

C4_Witness ==
    /\ Len(log) = 2 /\ AllIdle
    /\ log[1].chat = 1 /\ log[1].arg = "bogus" /\ ~log[1].changed
    /\ log[2].chat = 2 /\ ~log[2].changed
    /\ sent[log[1].t].text = "Invalid mode"
    /\ get_mode_for_chat(1) = "unicode" /\ get_mode_for_chat(2) = "emoji"
    /\ Str(2) \notin DOMAIN modes

(* the last two completed commands are no-argument toggles of one chat and   *)
(* all commands since process start ran one after the other on one worker     *)
TwoToggles(c) ==
    /\ AllIdle /\ Len(log) >= 2
    /\ \A k \in 1..Len(log) : log[k].t = log[1].t
    /\ \A k \in {Len(log) - 1, Len(log)} : log[k].chat = c /\ log[k].arg = NoArg

(* C5: two consecutive toggles of a chat restore the mode the chat had       *)
(* before the first one, whatever value the store held for it.                *)
C5_ToggleInvolution ==
    \A c \in Chats : TwoToggles(c) => get_mode_for_chat(c) = log[Len(log) - 1].cur

(* C5 amended: two consecutive toggles restore the mode when it was "emoji"  *)
(* (recorded or defaulted) or "unicode"; from any other stored value they     *)
(* end in "unicode".                                                          *)
C5_ToggleInvolutionRecognised ==
    \A c \in Chats : TwoToggles(c) =>
       IF log[Len(log) - 1].cur \in {"emoji", "unicode"}
       THEN get_mode_for_chat(c) = log[Len(log) - 1].cur
       ELSE get_mode_for_chat(c) = "unicode"

C5_Witness ==
    /\ TwoToggles(1) /\ Len(log) = 2
    /\ Str(1) \notin DOMAIN load_modes(boot)
    /\ log[1].cur = "emoji" /\ log[2].cur = "unicode"
    /\ get_mode_for_chat(1) = "emoji"
    /\ file = JsonFile(modes)

(* C6: two mode changes of one chat handled on different workers end in the  *)
(* mode some sequential order of the two produces.                            *)
C6_NoLostUpdate ==
    (/\ AllIdle /\ Len(log) = 2
     /\ log[1].t # log[2].t /\ log[1].chat = log[2].chat
     /\ log[1].changed /\ log[2].changed)
    => LET c  == log[1].chat
           m0 == ModeOf(load_modes(boot), c)
       IN  get_mode_for_chat(c) \in
              {NewMode(log[2].arg, NewMode(log[1].arg, m0)),
               NewMode(log[1].arg, NewMode(log[2].arg, m0))}

(* C7: once a set_mode_for_chat has completed and no handler is running, the *)
(* file holds exactly the modes dict, so reloading it gives every chat the    *)
(* mode it has now.                                                           *)
C7_Durable ==
    (AllIdle /\ \E k \in 1..Len(log) : log[k].changed)
    => /\ file = JsonFile(modes)
       /\ \A c \in Chats : ModeOf(load_modes(file), c) = get_mode_for_chat(c)

(* the characters encode_emoji_text maps: a-z, A-Z, space, and KELVIN SIGN   *)
(* U+212A, whose lower() is "k"                                               *)
InEmojiDomain(c) == IsLetterOrSpace(c) \/ c = 8490

(* unicode_encode escapes every character *)
InUnicodeDomain(c) == TRUE

OutsideDomain(s) ==
    \A k \in 1..Len(s) :
       IF mode = "emoji" THEN ~InEmojiDomain(s[k]) ELSE ~InUnicodeDomain(s[k])

(* C8: for both schemes, a string of characters outside the scheme's domain  *)
(* is left unchanged by encode and by decode.                                 *)
C8_PassThrough ==
    mode \in {"emoji", "unicode"} =>
       /\ (tpc = "encoded" /\ OutsideDomain(plain)) => enc = plain
       /\ (Decoded /\ OutsideDomain(FirstInput)) => dec1 = FirstInput

(* C8 amended: a string of characters outside the scheme's domain is left    *)
(* unchanged by encode, and by decode when it holds no valid token: for the   *)
(* Symbol scheme no substring of it is a key of REV_EMOJI (the characters of  *)
(* the tokens are themselves outside the domain).  For the Escape scheme      *)
(* every character is in the domain and only the empty string qualifies.      *)
C8_PassThroughNoToken ==
    mode \in {"emoji", "unicode"} =>
       /\ (tpc = "encoded" /\ OutsideDomain(plain)) => enc = plain
       /\ (Decoded /\ OutsideDomain(FirstInput)
             /\ (mode = "emoji" => ~HasKey(FirstInput)))
          => dec1 = FirstInput

C8_Witness ==
    /\ mode = "emoji" /\ tpc = "decoded" /\ src = "enc"
    /\ plain = <<304, 33>>
    /\ enc = plain /\ dec1 = plain

(* s holds no valid token (Symbol) or no valid escape (Escape) *)
NoValidToken(s) == IF mode = "emoji" THEN ~HasKey(s) ELSE ~HasEscape(s)

(* C9: decoding is idempotent on text without valid tokens or escapes:       *)
(* decoding the decoded text changes nothing.                                 *)
C9_DecodeIdempotent ==
    (mode \in {"emoji", "unicode"} /\ tpc = "decoded2" /\ NoValidToken(FirstInput))
    => dec2 = dec1

(* C9 amended: as C9, where for the Escape scheme the whitespace-separated   *)
(* pieces of the text, joined together, must not form a valid escape either.  *)
C9_DecodeIdempotentJoined ==
    (/\ mode \in {"emoji", "unicode"} /\ tpc = "decoded2"
     /\ NoValidToken(FirstInput)
     /\ mode = "unicode" => ~ValidEscape(Concat(Split(FirstInput))))
    => dec2 = dec1

C9_Witness ==
    /\ mode = "unicode" /\ tpc = "decoded2" /\ src = "raw"
    /\ plain = <<92, 117, 32, 45, 52>>
    /\ dec1 = <<92, 117, 45, 52>>
    /\ dec2 = dec1

(* the keys of REV_EMOJI that are a prefix of s *)
PrefixKeys(s) == {k \in REV_KEYS : Len(k) <= Len(s) /\ SubSeq(s, 1, Len(k)) = k}

(* reference tokenizer: the longest key that is a prefix of the remaining    *)
(* input is replaced by its character, otherwise one character is copied      *)
RECURSIVE RefDecode(_)
RefDecode(s) ==
    IF s = <<>> THEN <<>>
    ELSE IF PrefixKeys(s) = {} THEN <<Head(s)>> \o RefDecode(Tail(s))
    ELSE LET k == CHOOSE x \in PrefixKeys(s) : \A y \in PrefixKeys(s) : Len(y) <= Len(x)
         IN  <<REV_EMOJI[k]>> \o RefDecode(SubSeq(s, Len(k) + 1, Len(s)))

Rest(s, a) == SubSeq(s, Min(a, Len(s)) + 1, Len(s))

(* C10: decode_emoji_text is the greedy longest-match tokenizer: what it has *)
(* emitted so far followed by the reference decoding of the remaining input   *)
(* is the reference decoding of the whole input, every iteration consumes     *)
(* the longest matching key (or one character) and moves forward, and the     *)
(* result is the reference decoding.                                          *)
C10_GreedyLongestMatch ==
    /\ [](mode = "emoji" =>
            /\ tpc = "decoding" =>
                  /\ out \o RefDecode(Rest(glyphs, i)) = RefDecode(glyphs)
                  /\ Len(out) <= Min(i, Len(glyphs))
            /\ Decoded => dec1 = RefDecode(FirstInput))
    /\ [][(mode = "emoji" /\ tpc = "decoding" /\ tpc' = "decoding" /\ i' # i) =>
            LET K == PrefixKeys(Rest(glyphs, i))
                n == IF K = {} THEN 1 ELSE SetMax({Len(k) : k \in K})
            IN  /\ i' > i
                /\ Rest(glyphs, i') = Rest(glyphs, i + n)
                /\ Len(out') = Len(out) + 1]_vars

C10_Witness ==
    /\ mode = "emoji" /\ tpc = "decoded" /\ src = "raw"
    /\ plain = <<240, 376, 338, 710>>
    /\ <<240, 376, 338>> \in PrefixKeys(plain)
    /\ <<240, 376, 338, 710>> \in PrefixKeys(plain)
    /\ dec1 = <<114>>

====
